---- MODULE Spec2Model ----
(***************************************************************************)
(* A model of gpflow/likelihoods.py: the likelihood objects, their         *)
(* evaluation operations and the SwitchedLikelihood dispatch.              *)
(*                                                                         *)
(* A tensor of shape [N, P] is a sequence of N rows, each row a sequence   *)
(* of P entries.  The operations of a child likelihood are row-wise (every *)
(* operation of the file is an element-wise expression over the rows of    *)
(* its arguments), so the value a child returns for one row is written as  *)
(* a term naming the child, the operation and the row of every argument.   *)
(***************************************************************************)
EXTENDS Integers, Sequences, FiniteSets, TLC

VARIABLES
    likelihood_list,   \* SwitchedLikelihood.likelihood_list
    num_likelihoods,   \* SwitchedLikelihood.num_likelihoods
    sw_points,         \* SwitchedLikelihood.num_gauss_hermite_points
    Fmu,               \* the caller's tensor Fmu (F for logp), [N, 1]
    Fvar,              \* the caller's tensor Fvar, [N, 1]
    Y,                 \* the caller's tensor Y, [N, 2]: data column, index column
    func_name,         \* the operation of the last call, "none" before any
    results,           \* what the last call returned
    calls,             \* the child invocations of the last call, in order
    robustmax,         \* the RobustMax object: epsilon, num_classes
    ctor_epsilon,      \* the epsilon RobustMax.__init__ was given
    multiclass,        \* the MultiClass object, NoMultiClass before construction
    mc_out,            \* the last operation on these objects and its outcome
    likelihood,        \* a scalar likelihood object (Gaussian ... Ordinal)
    sc_out,            \* the last operation on likelihood and its outcome
    mcl,               \* a Monte Carlo likelihood object (GaussianMC, SoftMax)
    mcl_out            \* the last operation on mcl and its outcome

swVars == <<likelihood_list, num_likelihoods, sw_points, Fmu, Fvar, Y,
            func_name, results, calls>>

mcVars == <<robustmax, ctor_epsilon, multiclass, mc_out>>

scVars == <<likelihood, sc_out>>

mlVars == <<mcl, mcl_out>>

vars == <<swVars, mcVars, scVars, mlVars>>

(***************************************************************************)
(* Bounds of the model.                                                    *)
(***************************************************************************)
MaxRows == 3
MaxLik == 2
MaxClasses == 3

\* Line 75: the Gauss-Hermite points every Likelihood is constructed with.
DefaultGaussHermitePoints == 20

(***************************************************************************)
(* Sequence helpers.                                                       *)
(***************************************************************************)
Last(s) == s[Len(s)]

Front(s) == SubSeq(s, 1, Len(s) - 1)

(***************************************************************************)
(* Exact arithmetic.  A number is a pair <<n, d>> with d >= 0 in lowest      *)
(* terms: the rational n/d when d > 0, and the floating-point specials      *)
(* +inf = <<1, 0>>, -inf = <<-1, 0>> and NaN = <<0, 0>> a division by zero     *)
(* of the tensor library produces.                                         *)
(***************************************************************************)
Abs(x) == IF x < 0 THEN -x ELSE x

Sgn(x) == IF x < 0 THEN -1 ELSE IF x > 0 THEN 1 ELSE 0

RECURSIVE GCD(_, _)
GCD(a, b) == IF b = 0 THEN a ELSE GCD(b, a % b)

Norm(q) ==
    IF q[2] = 0 THEN <<Sgn(q[1]), 0>>
    ELSE LET s == IF q[2] < 0 THEN -1 ELSE 1
             g == GCD(Abs(q[1]), Abs(q[2]))
         IN  <<(s * q[1]) \div g, (s * q[2]) \div g>>

Rat(n) == <<n, 1>>

NaN == <<0, 0>>

RAdd(a, b) ==
    IF a[2] = 0 /\ b[2] = 0 THEN (IF a = b THEN a ELSE NaN)
    ELSE IF a[2] = 0 THEN a
    ELSE IF b[2] = 0 THEN b
    ELSE LET g == GCD(a[2], b[2])
         IN  Norm(<<a[1] * (b[2] \div g) + b[1] * (a[2] \div g),
                    (a[2] \div g) * b[2]>>)

RNeg(a) == <<-a[1], a[2]>>

RSub(a, b) == RAdd(a, RNeg(b))

RMul(a, b) == Norm(<<a[1] * b[1], a[2] * b[2]>>)

RInv(a) == IF a[1] < 0 THEN <<-a[2], -a[1]>> ELSE <<a[2], a[1]>>

RDiv(a, b) == IF a[2] = 0 /\ b[2] = 0 THEN NaN ELSE RMul(a, RInv(b))

RSquare(a) == RMul(a, a)

\* a >= 0, false of NaN.
RGe0(a) == a # NaN /\ a[1] >= 0

RECURSIVE RSum(_)
RSum(s) == IF s = <<>> THEN Rat(0) ELSE RAdd(s[1], RSum(Tail(s)))

(***************************************************************************)
(* Tensor-library operations used by the dispatch.  Float entries are      *)
(* fixed-point numbers counted in halves, so that the cast of the index    *)
(* column to an integer is a real truncation.                              *)
(***************************************************************************)
\* tf.cast(x, tf.int32) of a float counted in halves: truncation toward zero.
cast_int32(x) == IF x >= 0 THEN x \div 2 ELSE -((-x) \div 2)

\* The positions of X (1-based, increasing) whose partition number is k.
PositionsOf(ind, k) == {i \in 1..Len(ind) : ind[i] = k}

NthOf(P, j) == CHOOSE i \in P : Cardinality({p \in P : p < i}) = j - 1

\* tf.dynamic_partition(X, ind, n): n tensors, the k-th (k = 0..n-1, stored at
\* k + 1) holding the rows of X whose partition number is k, in input order.
dynamic_partition(X, ind, n) ==
    [k1 \in 1..n |->
        LET P == PositionsOf(ind, k1 - 1)
        IN  [j \in 1..Cardinality(P) |-> X[NthOf(P, j)]]]

\* tf.range(0, n): the 1-D tensor 0, 1, ..., n-1.
range(n) == [i \in 1..n |-> i - 1]

\* tf.dynamic_stitch(indices, data): merged[indices[m][i]] = data[m][i]; the
\* result has max(indices) + 1 rows and a later write wins.  Position p of the
\* result (0-based) is stored at p + 1.
StitchWriters(indices, p) ==
    {<<m, i>> \in (DOMAIN indices) \X (0..MaxRows + 1) :
        i \in DOMAIN indices[m] /\ indices[m][i] = p}

StitchSize(indices) ==
    LET all == UNION {{indices[m][i] : i \in DOMAIN indices[m]} : m \in DOMAIN indices}
    IN  IF all = {} THEN 0 ELSE (CHOOSE p \in all : \A q \in all : q <= p) + 1

dynamic_stitch(indices, data) ==
    [p1 \in 1..StitchSize(indices) |->
        LET W == StitchWriters(indices, p1 - 1)
            w == CHOOSE w \in W : \A v \in W :
                    v[1] < w[1] \/ (v[1] = w[1] /\ v[2] <= w[2])
        IN  data[w[1]][w[2]]]

(***************************************************************************)
(* Child likelihoods.  The objects a likelihood_list may hold, and the     *)
(* value each operation of a child returns, row by row.                    *)
(***************************************************************************)
Liks == {"Gaussian", "Poisson"}

\* Row j of every tensor of args, in argument order.
RowOf(args, j) == [a \in 1..Len(args) |-> args[a][j]]

BatchLen(args) == Len(args[1])

\* lik.<func>(*args) for logp, predict_density and variational_expectations:
\* a tensor with one row per input row.
ChildCall(lik, func, args) ==
    [j \in 1..BatchLen(args) |->
        <<[lik |-> lik, func |-> func, part |-> "value", row |-> RowOf(args, j)]>>]

\* lik.predict_mean_and_var(Fmu, Fvar): the pair (mean, var), each a tensor with
\* one row per input row.
ChildMeanAndVar(lik, args) ==
    [mean |-> [j \in 1..BatchLen(args) |->
                <<[lik |-> lik, func |-> "predict_mean_and_var", part |-> "mean",
                   row |-> RowOf(args, j)]>>],
     var  |-> [j \in 1..BatchLen(args) |->
                <<[lik |-> lik, func |-> "predict_mean_and_var", part |-> "var",
                   row |-> RowOf(args, j)]>>]]

(***************************************************************************)
(* SwitchedLikelihood.                                                     *)
(***************************************************************************)
\* Lines 657-661: the index column of Y, cast to int32, and args with the
\* index column stripped from its last tensor.
IndexOf(args) == [i \in 1..Len(Last(args)) |-> cast_int32(Last(Last(args)[i]))]

StripIndex(args) ==
    [args EXCEPT ![Len(args)] = [i \in 1..Len(Last(args)) |-> Front(Last(args)[i])]]

\* Line 664: every argument partitioned by the index; element k the arguments
\* of child k.
PartitionArgs(args, n) ==
    LET ind == IndexOf(args)
        stripped == StripIndex(args)
    IN  [k \in 1..n |->
            [a \in 1..Len(args) |-> dynamic_partition(stripped[a], ind, n)[k]]]

\* Lines 668-669: the named operation of child k applied to its partition.
ChildResults(list, args, func) ==
    LET parts == PartitionArgs(args, Len(list))
    IN  [k \in 1..Len(list) |-> ChildCall(list[k], func, parts[k])]

\* The child results concatenated in partition order, without the stitch.
partition_and_concat(list, args, func) ==
    LET res == ChildResults(list, args, func)
        flat[k \in 0..Len(list)] ==
            IF k = 0 THEN <<>> ELSE flat[k - 1] \o res[k]
    IN  flat[Len(list)]

\* Lines 647-675.
partition_and_stitch(list, args, func) ==
    LET ind == IndexOf(args)
        partitions == dynamic_partition(range(Len(ind)), ind, Len(list))
    IN  dynamic_stitch(partitions, ChildResults(list, args, func))

\* A dispatch that invokes only the children some row selects.
PartitionCalls_nonempty(list, args, func) ==
    LET parts == PartitionArgs(args, Len(list))
        all == [k \in 1..Len(list) |-> [child |-> k, func |-> func, args |-> parts[k]]]
    IN  SelectSeq(all, LAMBDA c : Len(c.args[1]) > 0)

\* The child invocations of one partitioned call.
PartitionCalls(list, args, func) ==
    LET parts == PartitionArgs(args, Len(list))
    IN  [k \in 1..Len(list) |-> [child |-> k, func |-> func, args |-> parts[k]]]

\* A dispatch that consumes the index column of the caller's tensor.
CallerY_index_cleared(y, args) == [i \in 1..Len(y) |-> <<y[i][1], 0>>]

\* What the caller's Y holds after the call: line 660 slices Y into a new
\* tensor and line 661 rebinds a slot of the list built at lines 678-684; the
\* caller's tensor is not written.
CallerY(y, args) == y

\* Lines 686-691: every child evaluated on the whole batch, the means and the
\* variances concatenated along axis 1 in likelihood_list order.
Concat1(tensors, n) ==
    [j \in 1..n |->
        [c \in 1..Len(tensors) |-> tensors[c][j][1]]]

\* predict_mean_and_var routed through the partitioning of the other three
\* operations: each child given only the rows a trailing index column of Fvar
\* selects.
Switched_predict_mean_and_var_partitioned(list, fmu, fvar) ==
    LET parts == PartitionArgs(<<fmu, fvar>>, Len(list))
        mvs == [k \in 1..Len(list) |-> ChildMeanAndVar(list[k], parts[k])]
    IN  [mu  |-> Concat1([k \in 1..Len(list) |-> mvs[k].mean], Len(parts[1][1])),
         var |-> Concat1([k \in 1..Len(list) |-> mvs[k].var], Len(parts[1][1]))]

Switched_predict_mean_and_var(list, fmu, fvar) ==
    LET mvs == [k \in 1..Len(list) |-> ChildMeanAndVar(list[k], <<fmu, fvar>>)]
    IN  [mu  |-> Concat1([k \in 1..Len(list) |-> mvs[k].mean], Len(fmu)),
         var |-> Concat1([k \in 1..Len(list) |-> mvs[k].var], Len(fmu))]

WholeBatchCalls(list, fmu, fvar) ==
    [k \in 1..Len(list) |->
        [child |-> k, func |-> "predict_mean_and_var", args |-> <<fmu, fvar>>]]

\* The batches a caller may pass.  The rows carry distinct entries, ascending
\* or descending down the batch; the index column holds, in halves, the
\* index of each row, all whole or all with a fractional part of one half.
Orders == {"ascending", "descending"}

Entry(order, i, m) == IF order = "ascending" THEN i ELSE m + 1 - i

\* The objects a specification does not exercise are absent from it.
McAbsent ==
    /\ robustmax = [epsilon |-> <<0, 1>>, num_classes |-> 0]
    /\ ctor_epsilon = <<0, 1>>
    /\ multiclass = [num_classes |-> 0, invlink |-> "none", num_gauss_hermite_points |-> 0]
    /\ mc_out = [op |-> "absent"]

ScAbsent ==
    /\ likelihood = [kind |-> "absent"]
    /\ sc_out = [op |-> "absent"]

MlAbsent ==
    /\ mcl = [kind |-> "absent"]
    /\ mcl_out = [op |-> "absent"]

SwInit ==
    /\ McAbsent
    /\ ScAbsent
    /\ MlAbsent
    /\ \E n \in 1..MaxLik :
       \E list \in [1..n -> Liks] :
       \E m \in 0..MaxRows :
       \E ind \in [1..m -> 0..(n - 1)] :
       \E half \in {0, 1} :
       \E order \in Orders :
        /\ likelihood_list = list
        /\ num_likelihoods = n
        /\ sw_points = DefaultGaussHermitePoints
        /\ Fmu = [i \in 1..m |-> <<Entry(order, i, m)>>]
        /\ Fvar = [i \in 1..m |-> <<10 + Entry(order, i, m)>>]
        /\ Y = [i \in 1..m |-> <<20 + Entry(order, i, m), 2 * ind[i] + half>>]
        /\ func_name = "none"
        /\ results = <<>>
        /\ calls = <<>>

SwFrame(args) ==
    /\ UNCHANGED <<mcVars, scVars, mlVars>>
    /\ UNCHANGED <<likelihood_list, num_likelihoods, sw_points, Fmu, Fvar>>
    /\ Y' = CallerY(Y, StripIndex(args))

\* Lines 677-678.
Switched_logp ==
    /\ func_name # "absent"
    /\ func_name' = "logp"
    /\ results' = partition_and_stitch(likelihood_list, <<Fmu, Y>>, "logp")
    /\ calls' = PartitionCalls(likelihood_list, <<Fmu, Y>>, "logp")
    /\ SwFrame(<<Fmu, Y>>)

\* Lines 680-681.
Switched_predict_density ==
    /\ func_name # "absent"
    /\ func_name' = "predict_density"
    /\ results' = partition_and_stitch(likelihood_list, <<Fmu, Fvar, Y>>,
                                       "predict_density")
    /\ calls' = PartitionCalls(likelihood_list, <<Fmu, Fvar, Y>>, "predict_density")
    /\ SwFrame(<<Fmu, Fvar, Y>>)

\* Lines 683-684.
Switched_variational_expectations ==
    /\ func_name # "absent"
    /\ func_name' = "variational_expectations"
    /\ results' = partition_and_stitch(likelihood_list, <<Fmu, Fvar, Y>>,
                                       "variational_expectations")
    /\ calls' = PartitionCalls(likelihood_list, <<Fmu, Fvar, Y>>,
                               "variational_expectations")
    /\ SwFrame(<<Fmu, Fvar, Y>>)

\* Lines 686-691.
Switched_predict_mean_and_var_call ==
    /\ func_name # "absent"
    /\ func_name' = "predict_mean_and_var"
    /\ results' = Switched_predict_mean_and_var(likelihood_list, Fmu, Fvar)
    /\ calls' = WholeBatchCalls(likelihood_list, Fmu, Fvar)
    /\ UNCHANGED <<likelihood_list, num_likelihoods, sw_points, Fmu, Fvar, Y>>
    /\ UNCHANGED <<mcVars, scVars, mlVars>>

SwNext ==
    \/ Switched_logp
    \/ Switched_predict_density
    \/ Switched_variational_expectations
    \/ Switched_predict_mean_and_var_call

SpecSwitched == SwInit /\ [][SwNext]_vars

(***************************************************************************)
(* RobustMax and MultiClass (lines 512-632).  The operations are row-wise  *)
(* (an argmax along axis 1, an element-wise where), so one row of F and    *)
(* one label Y stand for the batch.                                        *)
(***************************************************************************)
\* The values epsilon may take: the default 1e-3 of line 525 and others in
\* (0, 1), the range of its Logistic transform.
DefaultEpsilon == <<1, 1000>>

Epsilons == {DefaultEpsilon, <<1, 2>>, <<2, 3>>}

LatentEntries == {0, 1}

\* tf.argmax(F, 1) of one row, 0-based: an index of a largest entry.  The
\* tensor library does not say which one when several entries tie.
ArgMaxSet(F) == {i \in 0..(Len(F) - 1) : \A j \in 1..Len(F) : F[j] <= F[i + 1]}

\* tf.one_hot(i, depth, on, off) of one index.
one_hot(i, depth, on, off) == [c \in 1..depth |-> IF c = i + 1 THEN on ELSE off]

\* The _eps_K1 a cache filled by __init__ would return.
eps_K1_cached(rm) == RDiv(ctor_epsilon, Rat(rm.num_classes - 1))

\* Lines 536-539: the property _eps_K1, computed from epsilon at every read.
eps_K1(rm) == RDiv(rm.epsilon, Rat(rm.num_classes - 1))

OneMinusEps(rm) == RSub(Rat(1), rm.epsilon)

\* RobustMax.__call__ with epsilon itself, not _eps_K1, as the off value.
RobustMax_call_off_epsilon(rm, i) ==
    one_hot(i, rm.num_classes, OneMinusEps(rm), rm.epsilon)

\* Lines 531-534: RobustMax.__call__ on one row whose argmax is i.
RobustMax_call(rm, i) == one_hot(i, rm.num_classes, OneMinusEps(rm), eps_K1(rm))

\* Lines 541-564: prob_is_largest is a Gauss-Hermite sum of products of
\* clamped normal CDFs; its value is a number in (0, 1].
ProbValues == {<<1, 4>>, <<1, 1>>}

Links == {"RobustMax", "softmax"}

\* No MultiClass object has been constructed yet.
NoMultiClass == [num_classes |-> 0, invlink |-> "none", num_gauss_hermite_points |-> 0]

Constructed(mc) == mc.invlink # "none"

isinstance_RobustMax(link) == link = "RobustMax"

Raised == [status |-> "NotImplementedError"]

Returned(v) == [status |-> "value", value |-> v]

\* Lines 582-591, one row: i the argmax of F.
MultiClass_logp(mc, rm, i, y) ==
    IF isinstance_RobustMax(mc.invlink)
    THEN Returned([fn |-> "log",
                   arg |-> IF i = y THEN OneMinusEps(rm) ELSE eps_K1(rm)])
    ELSE Raised

\* Lines 593-601, one row: p the value of prob_is_largest.  The result is
\* p * log(1 - epsilon) + (1 - p) * log(_eps_K1).
MultiClass_variational_expectations(mc, rm, p) ==
    IF isinstance_RobustMax(mc.invlink)
    THEN Returned([p |-> p, log_hit |-> OneMinusEps(rm), log_miss |-> eps_K1(rm)])
    ELSE Raised

\* _predict_non_logged_density without the test of the link.
predict_non_logged_density_unchecked(mc, rm, p) ==
    Returned(RAdd(RMul(p, OneMinusEps(rm)), RMul(RSub(Rat(1), p), eps_K1(rm))))

\* Lines 617-625, one row.
predict_non_logged_density(mc, rm, p) ==
    IF isinstance_RobustMax(mc.invlink)
    THEN Returned(RAdd(RMul(p, OneMinusEps(rm)), RMul(RSub(Rat(1), p), eps_K1(rm))))
    ELSE Raised

\* Lines 614-615.
MultiClass_predict_density(mc, rm, p) ==
    LET den == predict_non_logged_density(mc, rm, p)
    IN  IF den.status = "value"
        THEN Returned([fn |-> "log", arg |-> den.value])
        ELSE den

\* Lines 603-612, one row: ps[c] the value of prob_is_largest for label c - 1.
MultiClass_predict_mean_and_var(mc, rm, ps) ==
    IF isinstance_RobustMax(mc.invlink)
    THEN LET dens == [c \in 1..mc.num_classes |->
                        predict_non_logged_density(mc, rm, ps[c]).value]
         IN  Returned([mean |-> dens,
                       var  |-> [c \in 1..mc.num_classes |->
                                   RSub(dens[c], RSquare(dens[c]))]])
    ELSE Raised

\* Lines 627-628, one row: any link is called; the value of a link that is not
\* a RobustMax is not modelled further.
MultiClass_conditional_mean(mc, rm, i) ==
    IF isinstance_RobustMax(mc.invlink)
    THEN Returned(RobustMax_call(rm, i))
    ELSE Returned([fn |-> mc.invlink])

\* Lines 630-632, one row.
MultiClass_conditional_variance(mc, rm, i) ==
    IF isinstance_RobustMax(mc.invlink)
    THEN LET pr == RobustMax_call(rm, i)
         IN  Returned([c \in 1..Len(pr) |-> RSub(pr[c], RSquare(pr[c]))])
    ELSE Returned([fn |-> mc.invlink])

SwAbsent ==
    /\ likelihood_list = <<>>
    /\ num_likelihoods = 0
    /\ sw_points = 0
    /\ Fmu = <<>>
    /\ Fvar = <<>>
    /\ Y = <<>>
    /\ func_name = "absent"
    /\ results = <<>>
    /\ calls = <<>>

\* A RobustMax constructed with some epsilon and class count (lines 525-529);
\* no MultiClass yet.
McInit ==
    /\ SwAbsent
    /\ ScAbsent
    /\ MlAbsent
    /\ \E e \in Epsilons, k \in 1..MaxClasses :
        /\ robustmax = [epsilon |-> e, num_classes |-> k]
        /\ ctor_epsilon = e
    /\ multiclass = NoMultiClass
    /\ mc_out = [op |-> "RobustMax.__init__", status |-> "value"]

\* Lines 568-580 with invlink=None: a RobustMax(num_classes) with the default
\* epsilon becomes the link.
MultiClass_init_default ==
    /\ mc_out.op # "absent"
    /\ \E k \in 1..MaxClasses :
        /\ robustmax' = [epsilon |-> DefaultEpsilon, num_classes |-> k]
        /\ ctor_epsilon' = DefaultEpsilon
        /\ multiclass' = [num_classes |-> k, invlink |-> "RobustMax",
                          num_gauss_hermite_points |-> DefaultGaussHermitePoints]
        /\ mc_out' = [op |-> "MultiClass.__init__", invlink |-> "None",
                      status |-> "value"]
        /\ UNCHANGED <<swVars, scVars, mlVars>>

\* Lines 568-580 with the RobustMax object as invlink.
MultiClass_init_robustmax ==
    /\ mc_out.op # "absent"
    /\ multiclass' = [num_classes |-> robustmax.num_classes, invlink |-> "RobustMax",
                      num_gauss_hermite_points |-> DefaultGaussHermitePoints]
    /\ mc_out' = [op |-> "MultiClass.__init__", invlink |-> "RobustMax",
                  status |-> "value"]
    /\ UNCHANGED <<robustmax, ctor_epsilon, swVars, scVars, mlVars>>

\* Lines 578-579: any other link raises; no object is made.
MultiClass_init_other ==
    /\ mc_out.op # "absent"
    /\ mc_out' = [op |-> "MultiClass.__init__", invlink |-> "softmax",
                  status |-> "NotImplementedError"]
    /\ UNCHANGED <<robustmax, ctor_epsilon, multiclass, swVars, scVars, mlVars>>

\* multiclass.invlink = link, assigned after construction.
SetInvlink ==
    /\ Constructed(multiclass)
    /\ \E link \in Links :
        /\ multiclass' = [multiclass EXCEPT !.invlink = link]
        /\ mc_out' = [op |-> "set_invlink", status |-> "value"]
    /\ UNCHANGED <<robustmax, ctor_epsilon, swVars, scVars, mlVars>>

\* robustmax.epsilon assigned a new value between evaluations.
SetEpsilon ==
    /\ mc_out.op # "absent"
    /\ \E e \in Epsilons :
        /\ robustmax' = [robustmax EXCEPT !.epsilon = e]
        /\ mc_out' = [op |-> "set_epsilon", status |-> "value"]
    /\ UNCHANGED <<ctor_epsilon, multiclass, swVars, scVars, mlVars>>

McObjectsUnchanged == UNCHANGED <<robustmax, ctor_epsilon, multiclass, swVars, scVars, mlVars>>

\* The outcome of an evaluation, with the inputs it was given.
Outcome(op, inputs, r) == [op |-> op, inputs |-> inputs] @@ r

Call_RobustMax ==
    /\ mc_out.op # "absent"
    /\ \E F \in [1..robustmax.num_classes -> LatentEntries] :
       \E i \in ArgMaxSet(F) :
        mc_out' = Outcome("RobustMax.__call__", [F |-> F, argmax |-> i],
                          Returned(RobustMax_call(robustmax, i)))
    /\ McObjectsUnchanged

Call_logp ==
    /\ Constructed(multiclass)
    /\ \E F \in [1..multiclass.num_classes -> LatentEntries] :
       \E i \in ArgMaxSet(F) :
       \E y \in 0..(multiclass.num_classes - 1) :
        mc_out' = Outcome("logp", [F |-> F, argmax |-> i, Y |-> y],
                          MultiClass_logp(multiclass, robustmax, i, y))
    /\ McObjectsUnchanged

Call_variational_expectations ==
    /\ Constructed(multiclass)
    /\ \E p \in ProbValues :
        mc_out' = Outcome("variational_expectations", [p |-> p],
                          MultiClass_variational_expectations(multiclass, robustmax, p))
    /\ McObjectsUnchanged

Call_predict_density ==
    /\ Constructed(multiclass)
    /\ \E p \in ProbValues :
        mc_out' = Outcome("predict_density", [p |-> p],
                          MultiClass_predict_density(multiclass, robustmax, p))
    /\ McObjectsUnchanged

Call_predict_mean_and_var ==
    /\ Constructed(multiclass)
    /\ \E ps \in [1..multiclass.num_classes -> ProbValues] :
        mc_out' = Outcome("predict_mean_and_var", [p |-> ps],
                          MultiClass_predict_mean_and_var(multiclass, robustmax, ps))
    /\ McObjectsUnchanged

Call_conditional_mean ==
    /\ Constructed(multiclass)
    /\ \E F \in [1..multiclass.num_classes -> LatentEntries] :
       \E i \in ArgMaxSet(F) :
        mc_out' = Outcome("conditional_mean", [F |-> F, argmax |-> i],
                          MultiClass_conditional_mean(multiclass, robustmax, i))
    /\ McObjectsUnchanged

Call_conditional_variance ==
    /\ Constructed(multiclass)
    /\ \E F \in [1..multiclass.num_classes -> LatentEntries] :
       \E i \in ArgMaxSet(F) :
        mc_out' = Outcome("conditional_variance", [F |-> F, argmax |-> i],
                          MultiClass_conditional_variance(multiclass, robustmax, i))
    /\ McObjectsUnchanged

McNext ==
    \/ MultiClass_init_default
    \/ MultiClass_init_robustmax
    \/ MultiClass_init_other
    \/ SetInvlink
    \/ SetEpsilon
    \/ Call_RobustMax
    \/ Call_logp
    \/ Call_variational_expectations
    \/ Call_predict_density
    \/ Call_predict_mean_and_var
    \/ Call_conditional_mean
    \/ Call_conditional_variance

SpecMultiClass == McInit /\ [][McNext]_vars

(***************************************************************************)
(* The scalar likelihoods (lines 72-509, 694-768).  Every operation is     *)
(* element-wise, so one entry of F (or Fmu, Fvar) and one datum Y stand    *)
(* for the batch.  The object is the record                                *)
(*   kind, invlink, param, df, bin_edges, num_gauss_hermite_points         *)
(* where param is the attribute the kind has: Gaussian.variance,           *)
(* Poisson.binsize, StudentT.scale, Gamma.shape, Beta.scale, Ordinal.sigma.*)
(*                                                                         *)
(* The transcendental functions are tabulated on the latent values of the  *)
(* model by rationals close to their values, which keep what the checked   *)
(* properties depend on: exp is positive and increasing with exp(0) = 1,   *)
(* the normal CDF is increasing from 0 to 1 with CDF(0) = 1/2.             *)
(***************************************************************************)
Latents == {-1, 0, 1}

\* The (Fmu, Fvar) of one entry: the quadrature nodes Fmu +- sqrt(Fvar) of
\* each stay among the latent values.
Moments == {<<-1, 0>>, <<0, 0>>, <<1, 0>>, <<0, 1>>}

DataValues == {0, 1}

PositiveParams == {<<1, 2>>, <<1, 1>>, <<2, 1>>}

Sqrt(v) == CASE v = 0 -> 0 [] v = 1 -> 1

\* tf.exp on the latent values.
Exp(x) == CASE x = -1 -> <<3, 8>> [] x = 0 -> <<1, 1>> [] x = 1 -> <<8, 3>>

\* 0.5 * (1.0 + tf.erf(x / np.sqrt(2.0))), the normal CDF, of a whole number
\* or +-inf.
Phi(q) ==
    CASE q = <<1, 0>>  -> <<1, 1>>
      [] q = <<-1, 0>> -> <<0, 1>>
      [] q = <<-4, 1>> -> <<1, 10000>>
      [] q = <<-2, 1>> -> <<1, 20>>
      [] q = <<-1, 1>> -> <<1, 5>>
      [] q = <<-1, 2>> -> <<3, 10>>
      [] q = <<0, 1>>  -> <<1, 2>>
      [] q = <<1, 2>>  -> <<7, 10>>
      [] q = <<1, 1>>  -> <<4, 5>>
      [] q = <<2, 1>>  -> <<19, 20>>
      [] q = <<4, 1>>  -> <<9999, 10000>>

\* Lines 360-362.
jitter == <<1, 1000>>

\* The normal CDF without the jitter.
inv_probit_unclamped(q) == Phi(q)

inv_probit(q) ==
    RAdd(RMul(Phi(q), RSub(Rat(1), RMul(Rat(2), jitter))), jitter)

\* The inverse links: the library's exp, the module's inv_probit, and
\* functions of the caller that compute the same values but are other objects.
ExpLinks == {"tf.exp", "custom_exp"}

ProbitLinks == {"inv_probit", "custom_probit"}

RateLinks == {"tf.exp", "custom_exp", "inv_probit"}

ProbabilityLinks == {"inv_probit", "custom_probit", "tf.exp"}

\* self.invlink(F)
invlink(l, f) ==
    IF l.invlink \in ExpLinks THEN Exp(f) ELSE inv_probit(Rat(f))

\* The default inverse link of each constructor (lines 260, 298, 374, 418, 485).
DefaultLink(kind) ==
    CASE kind \in {"Poisson", "Exponential", "Gamma"} -> "tf.exp"
      [] kind \in {"Bernoulli", "Beta"} -> "inv_probit"
      [] OTHER -> "none"

\* A test of the link by what it computes instead of which object it is.
is_tf_exp_by_value(link) == link \in ExpLinks

\* `self.invlink is tf.exp`, `self.invlink is inv_probit`: identity of the
\* function object.
is_tf_exp(link) == link = "tf.exp"

is_inv_probit(link) == link = "inv_probit"

Value(v) == [status |-> "value", value |-> v]

Failure(e) == [status |-> e]

\* logdensities.<name>(x, params): a primitive log-density, kept as a term.
LogDensity(name, x, params) == [density |-> name, x |-> x, params |-> params]

\* _make_phi with the two probits of each difference exchanged.
make_phi_reversed(l, f) ==
    LET n == Len(l.bin_edges)
        scaled(k) == RDiv(Rat(l.bin_edges[k]), l.param)
        left == [k \in 1..(n + 1) |-> IF k <= n THEN scaled(k) ELSE <<1, 0>>]
        right == [k \in 1..(n + 1) |-> IF k = 1 THEN <<-1, 0>> ELSE scaled(k - 1)]
        fs == RDiv(Rat(f), l.param)
    IN  [k \in 1..(n + 1) |->
            RSub(inv_probit(RSub(right[k], fs)), inv_probit(RSub(left[k], fs)))]

\* Lines 733-756: the probability of each label 0..K, _make_phi's row for F.
make_phi(l, f) ==
    LET n == Len(l.bin_edges)
        scaled(k) == RDiv(Rat(l.bin_edges[k]), l.param)
        left == [k \in 1..(n + 1) |-> IF k <= n THEN scaled(k) ELSE <<1, 0>>]
        right == [k \in 1..(n + 1) |-> IF k = 1 THEN <<-1, 0>> ELSE scaled(k - 1)]
        fs == RDiv(Rat(f), l.param)
    IN  [k \in 1..(n + 1) |->
            RSub(inv_probit(RSub(left[k], fs)), inv_probit(RSub(right[k], fs)))]

\* tf.matmul(phi, Ys) with Ys = 0, 1, ..., num_bins - 1 (or their squares).
Dot(phi, power) ==
    RSum([k \in 1..Len(phi) |->
            RMul(phi[k], Rat(IF power = 1 THEN k - 1 ELSE (k - 1) * (k - 1)))])

\* conditional_mean of every kind (lines 220, 279, 311, 351, 398, 433, 503, 758).
conditional_mean(l, f) ==
    CASE l.kind = "Gaussian"    -> Value(Rat(f))
      [] l.kind = "Poisson"     -> Value(RMul(invlink(l, f), l.param))
      [] l.kind = "Exponential" -> Value(invlink(l, f))
      [] l.kind = "StudentT"    -> Value(Rat(f))
      [] l.kind = "Bernoulli"   -> Value(invlink(l, f))
      [] l.kind = "Gamma"       -> Value(RMul(l.param, invlink(l, f)))
      [] l.kind = "Beta"        -> Value(invlink(l, f))
      [] l.kind = "Ordinal"     -> Value(Dot(make_phi(l, f), 1))

\* Bernoulli.conditional_variance with the difference the wrong way round.
Bernoulli_conditional_variance_swapped(l, f) ==
    LET pr == conditional_mean(l, f).value IN Value(RSub(RSquare(pr), pr))

\* Lines 401-403.
Bernoulli_conditional_variance(l, f) ==
    LET pr == conditional_mean(l, f).value IN Value(RSub(pr, RSquare(pr)))

\* Lines 354-357.  df is the number __init__ was given, not a tensor: when
\* df - 2.0 = 0 the division raises for a Python float and gives inf for a
\* numpy float.
StudentT_conditional_variance(l, f) ==
    IF l.df - 2 = 0 /\ ~l.df_numpy THEN Failure("ZeroDivisionError")
    ELSE Value(RMul(RSquare(l.param), Norm(<<l.df, l.df - 2>>)))

\* Lines 763-768.
Ordinal_conditional_variance(l, f) ==
    LET phi == make_phi(l, f)
    IN  Value(RSub(Dot(phi, 2), RSquare(Dot(phi, 1))))

\* conditional_variance of every kind (lines 224, 276, 314, 355, 401, 437, 507, 763).
conditional_variance(l, f) ==
    CASE l.kind = "Gaussian"    -> Value(l.param)
      [] l.kind = "Poisson"     -> Value(RMul(invlink(l, f), l.param))
      [] l.kind = "Exponential" -> Value(RSquare(invlink(l, f)))
      [] l.kind = "StudentT"    -> StudentT_conditional_variance(l, f)
      [] l.kind = "Bernoulli"   -> Bernoulli_conditional_variance(l, f)
      [] l.kind = "Gamma"       -> Value(RMul(l.param, RSquare(invlink(l, f))))
      [] l.kind = "Beta"        ->
            LET mean == invlink(l, f)
            IN  Value(RDiv(RSub(mean, RSquare(mean)), RAdd(l.param, Rat(1))))
      [] l.kind = "Ordinal"     -> Ordinal_conditional_variance(l, f)

\* logp of every kind (lines 216, 273, 308, 347, 383, 429, 496, 734).
logp(l, f, y) ==
    CASE l.kind = "Gaussian"    -> LogDensity("gaussian", Rat(y), <<Rat(f), l.param>>)
      [] l.kind = "Poisson"     ->
            LogDensity("poisson", Rat(y), <<RMul(invlink(l, f), l.param)>>)
      [] l.kind = "Exponential" -> LogDensity("exponential", Rat(y), <<invlink(l, f)>>)
      [] l.kind = "StudentT"    ->
            LogDensity("student_t", Rat(y), <<Rat(f), l.param, Rat(l.df)>>)
      [] l.kind = "Bernoulli"   -> LogDensity("bernoulli", Rat(y), <<invlink(l, f)>>)
      [] l.kind = "Gamma"       ->
            LogDensity("gamma", Rat(y), <<l.param, invlink(l, f)>>)
      [] l.kind = "Beta"        ->
            LET alpha == RMul(invlink(l, f), l.param)
            IN  LogDensity("beta", Rat(y), <<alpha, RSub(l.param, alpha)>>)
      [] l.kind = "Ordinal"     ->
            [fn |-> "log", arg |-> RAdd(make_phi(l, f)[y + 1], <<1, 1000000>>)]

(***************************************************************************)
(* The quadrature engine.  ndiagquad(funcs, n, Fmu, Fvar) approximates the *)
(* integral of each function against N(Fmu, Fvar) by the n-point           *)
(* Gauss-Hermite rule: nodes Fmu + sqrt(2 Fvar) x_i, weights w_i/sqrt(pi). *)
(* The rule is represented by its two-point instance, nodes Fmu -+         *)
(* sqrt(Fvar) with weights 1/2, which has what every n-point rule has:     *)
(* positive weights that sum to one and nodes symmetric about Fmu.  The n  *)
(* the caller passes is kept in the result.                                *)
(***************************************************************************)
GaussHermiteNodes(fmu, fvar) == <<fmu - Sqrt(fvar), fmu + Sqrt(fvar)>>

GaussHermiteWeights == << <<1, 2>>, <<1, 2>> >>

\* The weighted sum of gX, the values of an integrand at the nodes.
ndiagquad(gX) ==
    RSum([i \in 1..Len(gX) |-> RMul(GaussHermiteWeights[i], gX[i])])

\* ndiagquad(self.logp, n, Fmu, Fvar, logspace=..., Y=Y): the combination of
\* the log-densities at the nodes, kept as a term.
ndiagquad_logp(l, n, fmu, fvar, y, logspace) ==
    LET X == GaussHermiteNodes(fmu, fvar)
    IN  [engine |-> "ndiagquad", n |-> n, logspace |-> logspace,
         terms |-> [i \in 1..Len(X) |-> logp(l, X[i], y)]]

Closed(v) == [status |-> "value", path |-> "closed_form", value |-> v]

Generic(v) == [status |-> "value", path |-> "generic_quadrature", value |-> v]

Direct(r) == [path |-> "direct"] @@ r

\* Likelihood.predict_mean_and_var, lines 103-108.
Likelihood_predict_mean_and_var(l, fmu, fvar) ==
    LET X == GaussHermiteNodes(fmu, fvar)
        mean(f) == conditional_mean(l, f).value
        integrand2(f) ==
            RAdd(conditional_variance(l, f).value, RSquare(mean(f)))
        E_y == ndiagquad([i \in 1..Len(X) |-> mean(X[i])])
        E_y2 == ndiagquad([i \in 1..Len(X) |-> integrand2(X[i])])
        V_y == RSub(E_y2, RSquare(E_y))
    IN  IF \E i \in 1..Len(X) : conditional_variance(l, X[i]).status # "value"
        THEN [status |-> "ZeroDivisionError", path |-> "generic_quadrature"]
        ELSE [n |-> l.num_gauss_hermite_points] @@ Generic(<<E_y, V_y>>)

\* Likelihood.predict_density, lines 131-133.
Likelihood_predict_density(l, fmu, fvar, y) ==
    Generic(ndiagquad_logp(l, l.num_gauss_hermite_points, fmu, fvar, y, TRUE))

\* Likelihood.variational_expectations, lines 157-159.
Likelihood_variational_expectations(l, fmu, fvar, y) ==
    Generic(ndiagquad_logp(l, l.num_gauss_hermite_points, fmu, fvar, y, FALSE))

\* Gaussian.predict_mean_and_var without the noise variance.
Gaussian_predict_mean_and_var_noiseless(l, fmu, fvar) ==
    Closed(<<Rat(fmu), Rat(fvar)>>)

\* Lines 226-228.
Gaussian_predict_mean_and_var(l, fmu, fvar) ==
    Closed(<<Rat(fmu), RAdd(Rat(fvar), l.param)>>)

\* Lines 230-232.
Gaussian_predict_density(l, fmu, fvar, y) ==
    Closed(LogDensity("gaussian", Rat(y),
                      <<Rat(fmu), RAdd(Rat(fvar), l.param)>>))

\* A closed-form expectation, kept as the expression of the source with the
\* values it is evaluated at.
ClosedForm(expr, l, fmu, fvar, y) ==
    Closed([expr |-> expr, Fmu |-> fmu, Fvar |-> fvar, Y |-> y, param |-> l.param])

\* Lines 234-237.
Gaussian_variational_expectations(l, fmu, fvar, y) ==
    ClosedForm("-0.5 log(2 pi) - 0.5 log(variance) - 0.5 ((Y - Fmu)^2 + Fvar) / variance",
               l, fmu, fvar, y)

\* Lines 282-286.
Poisson_variational_expectations(l, fmu, fvar, y) ==
    IF is_tf_exp(l.invlink)
    THEN ClosedForm("Y Fmu - exp(Fmu + Fvar / 2) binsize - lgamma(Y + 1) + Y log(binsize)",
                    l, fmu, fvar, y)
    ELSE Likelihood_variational_expectations(l, fmu, fvar, y)

\* Lines 317-320.
Exponential_variational_expectations(l, fmu, fvar, y) ==
    IF is_tf_exp(l.invlink)
    THEN ClosedForm("-exp(-Fmu + Fvar / 2) Y - Fmu", l, fmu, fvar, y)
    ELSE Likelihood_variational_expectations(l, fmu, fvar, y)

\* Lines 441-447.
Gamma_variational_expectations(l, fmu, fvar, y) ==
    IF is_tf_exp(l.invlink)
    THEN ClosedForm("-shape Fmu - lgamma(shape) + (shape - 1) log(Y) - Y exp(-Fmu + Fvar / 2)",
                    l, fmu, fvar, y)
    ELSE Likelihood_variational_expectations(l, fmu, fvar, y)

\* Fmu / tf.sqrt(1 + Fvar) on the moments of the model: Fmu when Fvar = 0,
\* and 0 when Fmu = 0.
DivSqrt1p(fmu, fvar) == IF fvar = 0 THEN fmu ELSE 0

\* Lines 385-391.
Bernoulli_predict_mean_and_var(l, fmu, fvar) ==
    IF is_inv_probit(l.invlink)
    THEN LET pr == inv_probit(Rat(DivSqrt1p(fmu, fvar)))
         IN  Closed(<<pr, RSub(pr, RSquare(pr))>>)
    ELSE Likelihood_predict_mean_and_var(l, fmu, fvar)

\* Lines 393-395.
Bernoulli_predict_density(l, fmu, fvar, y) ==
    LET r == Bernoulli_predict_mean_and_var(l, fmu, fvar)
    IN  [status |-> "value", path |-> r.path,
         value |-> LogDensity("bernoulli", Rat(y), <<r.value[1]>>)]

\* The method resolution of each class.
predict_mean_and_var(l, fmu, fvar) ==
    CASE l.kind = "Gaussian"  -> Gaussian_predict_mean_and_var(l, fmu, fvar)
      [] l.kind = "Bernoulli" -> Bernoulli_predict_mean_and_var(l, fmu, fvar)
      [] OTHER                -> Likelihood_predict_mean_and_var(l, fmu, fvar)

predict_density(l, fmu, fvar, y) ==
    CASE l.kind = "Gaussian"  -> Gaussian_predict_density(l, fmu, fvar, y)
      [] l.kind = "Bernoulli" -> Bernoulli_predict_density(l, fmu, fvar, y)
      [] OTHER                -> Likelihood_predict_density(l, fmu, fvar, y)

variational_expectations(l, fmu, fvar, y) ==
    CASE l.kind = "Gaussian"    -> Gaussian_variational_expectations(l, fmu, fvar, y)
      [] l.kind = "Poisson"     -> Poisson_variational_expectations(l, fmu, fvar, y)
      [] l.kind = "Exponential" -> Exponential_variational_expectations(l, fmu, fvar, y)
      [] l.kind = "Gamma"       -> Gamma_variational_expectations(l, fmu, fvar, y)
      [] OTHER                  -> Likelihood_variational_expectations(l, fmu, fvar, y)

(***************************************************************************)
(* The scalar likelihoods as a state machine: an object is constructed,    *)
(* its parameters are assigned between evaluations, and every evaluation   *)
(* leaves its outcome in sc_out.                                           *)
(***************************************************************************)
Object(kind, link, param, df, df_numpy, bin_edges) ==
    [kind |-> kind, invlink |-> link, param |-> param, df |-> df,
     df_numpy |-> df_numpy, bin_edges |-> bin_edges,
     num_gauss_hermite_points |-> DefaultGaussHermitePoints]

BinSizes == {<<1, 1>>, <<2, 1>>}

DegreesOfFreedom == {1, 2, 3}

BinEdges == {<<0>>, <<-1, 1>>}

\* The objects the constructors make (lines 206-214, 260-271, 298-306,
\* 336-345, 374-381, 418-427, 485-494, 722-731).  Gamma.shape and Ordinal.sigma
\* start at 1.0.
Objects ==
    {Object("Gaussian", "none", v, 0, FALSE, <<>>) : v \in PositiveParams}
    \cup {Object("Poisson", k, b, 0, FALSE, <<>>) : k \in RateLinks, b \in BinSizes}
    \cup {Object("Exponential", k, Rat(0), 0, FALSE, <<>>) : k \in RateLinks}
    \cup {Object("StudentT", "none", c, d, np, <<>>) :
            c \in PositiveParams, d \in DegreesOfFreedom, np \in BOOLEAN}
    \cup {Object("Bernoulli", k, Rat(0), 0, FALSE, <<>>) : k \in ProbabilityLinks}
    \cup {Object("Gamma", k, Rat(1), 0, FALSE, <<>>) : k \in RateLinks}
    \cup {Object("Beta", k, c, 0, FALSE, <<>>) :
            k \in ProbabilityLinks, c \in PositiveParams}
    \cup {Object("Ordinal", "none", Rat(1), 0, FALSE, e) : e \in BinEdges}

ScInit ==
    /\ SwAbsent
    /\ McAbsent
    /\ MlAbsent
    /\ likelihood \in Objects
    /\ sc_out = [op |-> "__init__"]

\* The kinds whose param is a Parameter an optimizer assigns between
\* evaluations (lines 214, 344, 427, 494).
Trainable == {"Gaussian", "StudentT", "Gamma", "Beta"}

AssignParameter ==
    /\ sc_out.op # "absent"
    /\ likelihood.kind \in Trainable
    /\ \E v \in PositiveParams : likelihood' = [likelihood EXCEPT !.param = v]
    /\ sc_out' = [op |-> "assign"]
    /\ UNCHANGED <<swVars, mcVars, mlVars>>

Evaluation(op, inputs, r) == [op |-> op, inputs |-> inputs, result |-> r]

Eval_logp ==
    /\ sc_out.op # "absent"
    /\ \E f \in Latents, y \in DataValues :
        sc_out' = Evaluation("logp", [F |-> f, Y |-> y],
                             Direct(Value(logp(likelihood, f, y))))
    /\ UNCHANGED <<likelihood, swVars, mcVars, mlVars>>

Eval_conditional_mean ==
    /\ sc_out.op # "absent"
    /\ \E f \in Latents :
        sc_out' = Evaluation("conditional_mean", [F |-> f],
                             Direct(conditional_mean(likelihood, f)))
    /\ UNCHANGED <<likelihood, swVars, mcVars, mlVars>>

Eval_conditional_variance ==
    /\ sc_out.op # "absent"
    /\ \E f \in Latents :
        sc_out' = Evaluation("conditional_variance", [F |-> f],
                             Direct(conditional_variance(likelihood, f)))
    /\ UNCHANGED <<likelihood, swVars, mcVars, mlVars>>

Eval_predict_mean_and_var ==
    /\ sc_out.op # "absent"
    /\ \E m \in Moments :
        sc_out' = Evaluation("predict_mean_and_var", [Fmu |-> m[1], Fvar |-> m[2]],
                             predict_mean_and_var(likelihood, m[1], m[2]))
    /\ UNCHANGED <<likelihood, swVars, mcVars, mlVars>>

Eval_predict_density ==
    /\ sc_out.op # "absent"
    /\ \E m \in Moments, y \in DataValues :
        sc_out' = Evaluation("predict_density",
                             [Fmu |-> m[1], Fvar |-> m[2], Y |-> y],
                             predict_density(likelihood, m[1], m[2], y))
    /\ UNCHANGED <<likelihood, swVars, mcVars, mlVars>>

Eval_variational_expectations ==
    /\ sc_out.op # "absent"
    /\ \E m \in Moments, y \in DataValues :
        sc_out' = Evaluation("variational_expectations",
                             [Fmu |-> m[1], Fvar |-> m[2], Y |-> y],
                             variational_expectations(likelihood, m[1], m[2], y))
    /\ UNCHANGED <<likelihood, swVars, mcVars, mlVars>>

ScNext ==
    \/ AssignParameter
    \/ Eval_logp
    \/ Eval_conditional_mean
    \/ Eval_conditional_variance
    \/ Eval_predict_mean_and_var
    \/ Eval_predict_density
    \/ Eval_variational_expectations

SpecScalar == ScInit /\ [][ScNext]_vars

(***************************************************************************)
(* The Monte Carlo family (lines 771-888).  A MonteCarloLikelihood is made *)
(* by the constructor of its base, after which the sample count is added   *)
(* and the Gauss-Hermite setting deleted.  An object keeps the kind of its *)
(* base, by which logp, conditional_mean and conditional_variance are      *)
(* found, and has the class that decides the three generic operations.     *)
(***************************************************************************)
DefaultMonteCarloPoints == 100

\* MonteCarloLikelihood.__init__ without the del of line 775.
MonteCarloLikelihood_init_keeping(base) ==
    [num_monte_carlo_points |-> DefaultMonteCarloPoints] @@ base

\* Lines 772-775, base the object super().__init__ made.
MonteCarloLikelihood_init(base) ==
    [num_monte_carlo_points |-> DefaultMonteCarloPoints]
        @@ [a \in (DOMAIN base \ {"num_gauss_hermite_points"}) |-> base[a]]

\* Lines 859-863: class GaussianMC(MonteCarloLikelihood, Gaussian).
GaussianMC_init(variance) ==
    [class |-> "GaussianMC"]
        @@ MonteCarloLikelihood_init(
               Object("Gaussian", "none", variance, 0, FALSE, <<>>))

\* Lines 871-873.
SoftMax_init(num_classes) ==
    [class |-> "SoftMax", kind |-> "SoftMax", num_classes |-> num_classes]
        @@ MonteCarloLikelihood_init(
               [num_gauss_hermite_points |-> DefaultGaussHermitePoints])

MonteCarloObjects ==
    {GaussianMC_init(v) : v \in PositiveParams}
    \cup {SoftMax_init(k) : k \in 1..MaxClasses}

\* The epsilon argument of the generic operations: None (the empty tuple) or a
\* tensor of standard-normal noise, one entry per sample.
None == <<>>

EpsilonArgs == {None, <<-1, 1>>, <<0, 0>>}

\* The noise the engine draws itself when epsilon is None.
Draws == {<<-1, 1>>, <<1, 1>>}

\* The noise an evaluation uses.
NoiseFor(epsilon) == IF epsilon = None THEN Draws ELSE {epsilon}

\* The engine's reparameterisation f = Fmu + sqrt(Fvar) * epsilon, one latent
\* value per sample.
MCSamples(fmu, fvar, noise) ==
    [k \in 1..Len(noise) |-> fmu + Sqrt(fvar) * noise[k]]

\* The engine's average of gX, the values of an integrand at the samples.  The
\* S samples are represented by the entries of the noise.
ndiag_mc(gX) == RDiv(RSum(gX), Rat(Len(gX)))

MonteCarlo(S, v) ==
    [status |-> "value", path |-> "monte_carlo", S |-> S, value |-> v]

\* Lines 777-778 with funcs = self.logp: the call, kept as a term.
mc_quadrature_logp(l, fmu, fvar, y, logspace, noise) ==
    LET X == MCSamples(fmu, fvar, noise)
    IN  MonteCarlo(l.num_monte_carlo_points,
                   [engine |-> "ndiag_mc", logspace |-> logspace,
                    terms |-> [k \in 1..Len(X) |-> logp(l, X[k], y)]])

\* Lines 780-805.
MonteCarloLikelihood_predict_mean_and_var(l, fmu, fvar, noise) ==
    LET X == MCSamples(fmu, fvar, noise)
        mean(f) == conditional_mean(l, f).value
        integrand2(f) ==
            RAdd(conditional_variance(l, f).value, RSquare(mean(f)))
        E_y == ndiag_mc([k \in 1..Len(X) |-> mean(X[k])])
        E_y2 == ndiag_mc([k \in 1..Len(X) |-> integrand2(X[k])])
        V_y == RSub(E_y2, RSquare(E_y))
    IN  MonteCarlo(l.num_monte_carlo_points, <<E_y, V_y>>)

\* Lines 807-829.
MonteCarloLikelihood_predict_density(l, fmu, fvar, y, noise) ==
    mc_quadrature_logp(l, fmu, fvar, y, TRUE, noise)

\* Lines 831-856.
MonteCarloLikelihood_variational_expectations(l, fmu, fvar, y, noise) ==
    mc_quadrature_logp(l, fmu, fvar, y, FALSE, noise)

\* A method resolution that finds Gaussian before MonteCarloLikelihood.
GaussianMC_predict_mean_and_var_closed(l, fmu, fvar, noise) ==
    Gaussian_predict_mean_and_var(l, fmu, fvar)

\* The method resolution of GaussianMC(MonteCarloLikelihood, Gaussian), lines
\* 859-863: MonteCarloLikelihood comes first.
GaussianMC_predict_mean_and_var(l, fmu, fvar, noise) ==
    MonteCarloLikelihood_predict_mean_and_var(l, fmu, fvar, noise)

GaussianMC_predict_density(l, fmu, fvar, y, noise) ==
    MonteCarloLikelihood_predict_density(l, fmu, fvar, y, noise)

GaussianMC_variational_expectations(l, fmu, fvar, y, noise) ==
    MonteCarloLikelihood_variational_expectations(l, fmu, fvar, y, noise)

\* The number of columns of the Y given to SoftMax.logp.
YColumns == 0..2

SoftMaxLogp(fcols) ==
    [fn |-> "-sparse_softmax_cross_entropy_with_logits", logits |-> fcols,
     labels |-> "Y[:, 0]"]

\* SoftMax.logp that asserts the label column count only.
SoftMax_logp_labels_only(l, fcols, ycols) ==
    IF ycols = 1 THEN {Value(SoftMaxLogp(fcols))}
    ELSE {Failure("InvalidArgumentError")}

\* Lines 875-882, by the shapes of F and Y: the outcomes the call can have.
\* The cross-entropy is computed under the control dependency of both
\* assertions.  With no column at all the slice Y[:, 0] is rejected when the
\* shape is static, and the first assertion fails when it is not.
SoftMax_logp(l, fcols, ycols) ==
    IF ycols = 1 /\ fcols = l.num_classes THEN {Value(SoftMaxLogp(fcols))}
    ELSE IF ycols = 0 THEN {Failure("InvalidArgumentError"), Failure("ValueError")}
    ELSE {Failure("InvalidArgumentError")}

\* Lines 777-778 with funcs = self.logp of a SoftMax: the engine calls logp on
\* samples of the shape of Fmu, and an outcome of logp that is a failure is the
\* outcome of the operation.
SoftMax_mc_quadrature_logp(l, fcols, ycols, logspace) ==
    {IF r.status = "value"
     THEN MonteCarlo(l.num_monte_carlo_points,
                     [engine |-> "ndiag_mc", logspace |-> logspace,
                      terms |-> <<r.value>>])
     ELSE [path |-> "monte_carlo"] @@ r : r \in SoftMax_logp(l, fcols, ycols)}

MlInit ==
    /\ SwAbsent
    /\ McAbsent
    /\ ScAbsent
    /\ mcl \in MonteCarloObjects
    /\ mcl_out = [op |-> "__init__"]

MlOthersUnchanged == UNCHANGED <<swVars, mcVars, scVars>>

\* Gaussian.variance, a Parameter (line 214), assigned between evaluations.
AssignVariance ==
    /\ mcl.kind = "Gaussian"
    /\ \E v \in PositiveParams : mcl' = [mcl EXCEPT !.param = v]
    /\ mcl_out' = [op |-> "assign"]
    /\ MlOthersUnchanged

MonteCarloPointChoices == {DefaultMonteCarloPoints, 10}

\* num_monte_carlo_points is a plain attribute (line 774): overridden by
\* assignment.
SetMonteCarloPoints ==
    /\ mcl_out.op # "absent"
    /\ \E n \in MonteCarloPointChoices :
        mcl' = [mcl EXCEPT !.num_monte_carlo_points = n]
    /\ mcl_out' = [op |-> "assign"]
    /\ MlOthersUnchanged

MC_logp ==
    /\ mcl.kind = "Gaussian"
    /\ \E f \in Latents, y \in DataValues :
        mcl_out' = Evaluation("logp", [F |-> f, Y |-> y],
                              Direct(Value(logp(mcl, f, y))))
    /\ UNCHANGED mcl
    /\ MlOthersUnchanged

MC_conditional_mean ==
    /\ mcl.kind = "Gaussian"
    /\ \E f \in Latents :
        mcl_out' = Evaluation("conditional_mean", [F |-> f],
                              Direct(conditional_mean(mcl, f)))
    /\ UNCHANGED mcl
    /\ MlOthersUnchanged

MC_conditional_variance ==
    /\ mcl.kind = "Gaussian"
    /\ \E f \in Latents :
        mcl_out' = Evaluation("conditional_variance", [F |-> f],
                              Direct(conditional_variance(mcl, f)))
    /\ UNCHANGED mcl
    /\ MlOthersUnchanged

MC_predict_mean_and_var ==
    /\ mcl.kind = "Gaussian"
    /\ \E m \in Moments, e \in EpsilonArgs :
       \E noise \in NoiseFor(e) :
        mcl_out' = Evaluation("predict_mean_and_var",
                              [Fmu |-> m[1], Fvar |-> m[2], epsilon |-> e,
                               noise |-> noise],
                              GaussianMC_predict_mean_and_var(mcl, m[1], m[2], noise))
    /\ UNCHANGED mcl
    /\ MlOthersUnchanged

MC_predict_density ==
    /\ mcl.kind = "Gaussian"
    /\ \E m \in Moments, y \in DataValues, e \in EpsilonArgs :
       \E noise \in NoiseFor(e) :
        mcl_out' = Evaluation("predict_density",
                              [Fmu |-> m[1], Fvar |-> m[2], Y |-> y, epsilon |-> e,
                               noise |-> noise],
                              GaussianMC_predict_density(mcl, m[1], m[2], y, noise))
    /\ UNCHANGED mcl
    /\ MlOthersUnchanged

MC_variational_expectations ==
    /\ mcl.kind = "Gaussian"
    /\ \E m \in Moments, y \in DataValues, e \in EpsilonArgs :
       \E noise \in NoiseFor(e) :
        mcl_out' = Evaluation("variational_expectations",
                              [Fmu |-> m[1], Fvar |-> m[2], Y |-> y, epsilon |-> e,
                               noise |-> noise],
                              GaussianMC_variational_expectations(
                                  mcl, m[1], m[2], y, noise))
    /\ UNCHANGED mcl
    /\ MlOthersUnchanged

SoftMax_logp_call ==
    /\ mcl.kind = "SoftMax"
    /\ \E fcols \in 1..MaxClasses, ycols \in YColumns :
       \E r \in SoftMax_logp(mcl, fcols, ycols) :
        mcl_out' = Evaluation("logp", [Fcols |-> fcols, Ycols |-> ycols], Direct(r))
    /\ UNCHANGED mcl
    /\ MlOthersUnchanged

SoftMax_predict_density_call ==
    /\ mcl.kind = "SoftMax"
    /\ \E fcols \in 1..MaxClasses, ycols \in YColumns :
       \E r \in SoftMax_mc_quadrature_logp(mcl, fcols, ycols, TRUE) :
        mcl_out' = Evaluation("predict_density",
                              [Fcols |-> fcols, Ycols |-> ycols], r)
    /\ UNCHANGED mcl
    /\ MlOthersUnchanged

SoftMax_variational_expectations_call ==
    /\ mcl.kind = "SoftMax"
    /\ \E fcols \in 1..MaxClasses, ycols \in YColumns :
       \E r \in SoftMax_mc_quadrature_logp(mcl, fcols, ycols, FALSE) :
        mcl_out' = Evaluation("variational_expectations",
                              [Fcols |-> fcols, Ycols |-> ycols], r)
    /\ UNCHANGED mcl
    /\ MlOthersUnchanged

MlNext ==
    \/ AssignVariance
    \/ SetMonteCarloPoints
    \/ MC_logp
    \/ MC_conditional_mean
    \/ MC_conditional_variance
    \/ MC_predict_mean_and_var
    \/ MC_predict_density
    \/ MC_variational_expectations
    \/ SoftMax_logp_call
    \/ SoftMax_predict_density_call
    \/ SoftMax_variational_expectations_call

SpecMonteCarlo == MlInit /\ [][MlNext]_vars

(***************************************************************************)
(* Ordinal on its own (lines 694-768): sigma is assigned between           *)
(* evaluations, logp is given every label up to one above the last         *)
(* category, and the row of category probabilities is observed.            *)
(***************************************************************************)
\* Line 730: self.num_bins = bin_edges.size + 1.
Ordinal_num_bins(l) == Len(l.bin_edges) + 1

\* Increasing bin edges: one edge at each latent value, two and three edges.
OrdinalEdges == {<<a>> : a \in Latents} \cup {<<-1, 1>>, <<-1, 0, 1>>}

\* Lines 733-743 for any label: tf.gather of a label with no entry in the
\* scaled bins fails on one device and yields 0 for both bins on another, which
\* leaves log(1e-6).
Ordinal_logp(l, f, y) ==
    IF y < Ordinal_num_bins(l) THEN {Value(logp(l, f, y))}
    ELSE {Failure("InvalidArgumentError"),
          Value([fn |-> "log", arg |-> <<1, 1000000>>])}

OrdInit ==
    /\ SwAbsent
    /\ McAbsent
    /\ MlAbsent
    /\ \E e \in OrdinalEdges :
        likelihood = Object("Ordinal", "none", Rat(1), 0, FALSE, e)
    /\ sc_out = [op |-> "__init__"]

\* Ordinal.sigma, a Parameter (line 731), assigned between evaluations.
AssignSigma ==
    /\ likelihood.kind = "Ordinal"
    /\ \E v \in PositiveParams : likelihood' = [likelihood EXCEPT !.param = v]
    /\ sc_out' = [op |-> "assign"]
    /\ UNCHANGED <<swVars, mcVars, mlVars>>

Ordinal_logp_call ==
    /\ likelihood.kind = "Ordinal"
    /\ \E f \in Latents, y \in 0..Ordinal_num_bins(likelihood) :
       \E r \in Ordinal_logp(likelihood, f, y) :
        sc_out' = Evaluation("logp", [F |-> f, Y |-> y], Direct(r))
    /\ UNCHANGED <<likelihood, swVars, mcVars, mlVars>>

Ordinal_make_phi_call ==
    /\ likelihood.kind = "Ordinal"
    /\ \E f \in Latents :
        sc_out' = Evaluation("_make_phi", [F |-> f],
                             Direct(Value(make_phi(likelihood, f))))
    /\ UNCHANGED <<likelihood, swVars, mcVars, mlVars>>

OrdNext ==
    \/ AssignSigma
    \/ Ordinal_logp_call
    \/ Ordinal_make_phi_call

SpecOrdinal == OrdInit /\ [][OrdNext]_vars

(***************************************************************************)
(* Properties of SwitchedLikelihood.                                       *)
(***************************************************************************)
PartitionedOps == {"logp", "predict_density", "variational_expectations"}

\* The arguments of row i as the named operation of a child receives them.
StrippedRow(op, i) ==
    IF op = "logp" THEN <<Fmu[i], <<Y[i][1]>>>>
    ELSE <<Fmu[i], Fvar[i], <<Y[i][1]>>>>

\* C1: after logp, predict_density or variational_expectations the result has
\* one row per input row, and row i is what child number ind[i] (the last
\* column of Y, truncated) returns for row i of the arguments with the index
\* column stripped from Y.
C1_RowsFromOwnChild ==
    func_name \in PartitionedOps =>
        /\ Len(results) = Len(Y)
        /\ \A i \in 1..Len(Y) :
            results[i] = <<[lik  |-> likelihood_list[(Y[i][2] \div 2) + 1],
                            func |-> func_name,
                            part |-> "value",
                            row  |-> StrippedRow(func_name, i)]>>

\* C1 witness: a partitioned call on three rows with interleaved indices
\* 0, 1, 0 over two different children.
C1_Witness ==
    /\ func_name = "logp"
    /\ num_likelihoods = 2
    /\ likelihood_list[1] # likelihood_list[2]
    /\ Len(Y) = 3
    /\ <<Y[1][2] \div 2, Y[2][2] \div 2, Y[3][2] \div 2>> = <<0, 1, 0>>
    /\ Len(results) = 3

\* C2: after predict_mean_and_var the mean and the variance have one row per
\* input row and one column per child, column k being what child k returns for
\* that row of the whole (Fmu, Fvar) batch; every child was called on the
\* whole batch.
C2_WholeBatchConcat ==
    func_name = "predict_mean_and_var" =>
        /\ Len(results.mu) = Len(Fmu)
        /\ Len(results.var) = Len(Fmu)
        /\ \A i \in 1..Len(Fmu) :
            /\ Len(results.mu[i]) = num_likelihoods
            /\ Len(results.var[i]) = num_likelihoods
            /\ \A k \in 1..num_likelihoods :
                /\ results.mu[i][k] =
                     [lik |-> likelihood_list[k], func |-> "predict_mean_and_var",
                      part |-> "mean", row |-> <<Fmu[i], Fvar[i]>>]
                /\ results.var[i][k] =
                     [lik |-> likelihood_list[k], func |-> "predict_mean_and_var",
                      part |-> "var", row |-> <<Fmu[i], Fvar[i]>>]
        /\ Len(calls) = num_likelihoods
        /\ \A k \in 1..num_likelihoods : calls[k].args = <<Fmu, Fvar>>

\* C2 witness: predict_mean_and_var over two different children on rows whose
\* indices differ.
C2_Witness ==
    /\ func_name = "predict_mean_and_var"
    /\ num_likelihoods = 2
    /\ likelihood_list[1] # likelihood_list[2]
    /\ Len(Y) >= 2
    /\ Y[1][2] \div 2 # Y[2][2] \div 2
    /\ Len(results.mu) = Len(Y)

(***************************************************************************)
(* Properties of RobustMax and MultiClass.                                 *)
(***************************************************************************)
GuardedOps == {"logp", "variational_expectations", "predict_mean_and_var",
               "predict_density"}

\* C3: a MultiClass returns no value from logp, variational_expectations,
\* predict_mean_and_var or predict_density while its link is not a RobustMax
\* (the call raises NotImplementedError); construction returns an object only
\* for a missing link, which becomes RobustMax(num_classes), or a RobustMax,
\* and raises for any other link.
C3_NonRobustMaxRaises ==
    /\ mc_out.op \in GuardedOps =>
        /\ mc_out.status = "value" => multiclass.invlink = "RobustMax"
        /\ multiclass.invlink # "RobustMax" => mc_out.status = "NotImplementedError"
    /\ mc_out.op = "MultiClass.__init__" =>
        /\ mc_out.status = "value" <=> mc_out.invlink \in {"None", "RobustMax"}
        /\ mc_out.status = "NotImplementedError" <=> mc_out.invlink = "softmax"
        /\ mc_out.status = "value" => multiclass.invlink = "RobustMax"
        /\ mc_out.invlink = "None" =>
            robustmax = [epsilon |-> DefaultEpsilon,
                         num_classes |-> multiclass.num_classes]

\* C3 witness: the link was replaced after construction and predict_density
\* raised.
C3_Witness ==
    /\ mc_out.op = "predict_density"
    /\ mc_out.status = "NotImplementedError"
    /\ multiclass.invlink = "softmax"

IsRobustMaxCall == mc_out.op = "RobustMax.__call__"

EntriesEqualTo(row, v) == {c \in 1..Len(row) : row[c] = v}

\* Row `row` is one-hot at an argmax of F: 1 - epsilon there, epsilon / (K - 1)
\* everywhere else.
OneHotAtArgMax(row, F, eps, k) ==
    \E i \in ArgMaxSet(F) :
        /\ row[i + 1] = RSub(Rat(1), eps)
        /\ \A c \in 1..Len(row) : c # i + 1 => row[c] = RDiv(eps, Rat(k - 1))

\* C6 as stated: for every class count K and every epsilon in (0, 1) the row
\* RobustMax returns sums to 1, is 1 - epsilon at argmax(F) and
\* epsilon / (K - 1) elsewhere, and exactly one entry carries the value
\* 1 - epsilon.
C6_Original ==
    IsRobustMaxCall =>
        /\ Len(mc_out.value) = robustmax.num_classes
        /\ RSum(mc_out.value) = Rat(1)
        /\ OneHotAtArgMax(mc_out.value, mc_out.inputs.F, robustmax.epsilon,
                          robustmax.num_classes)
        /\ Cardinality(EntriesEqualTo(mc_out.value,
                                      RSub(Rat(1), robustmax.epsilon))) = 1

\* C6 as amended: the row has K entries, is 1 - epsilon at one argmax of F
\* (one of the tied maxima) and epsilon / (K - 1) at every other position; for
\* K >= 2 it sums to 1, and the value 1 - epsilon is carried by exactly one entry
\* unless epsilon = (K - 1) / K, where every entry is 1 / K.  For K = 1 the row
\* is the single entry 1 - epsilon.
C6_RobustMaxRow ==
    IsRobustMaxCall =>
        LET k == robustmax.num_classes
            eps == robustmax.epsilon
            on == RSub(Rat(1), eps)
        IN  /\ Len(mc_out.value) = k
            /\ OneHotAtArgMax(mc_out.value, mc_out.inputs.F, eps, k)
            /\ k >= 2 => RSum(mc_out.value) = Rat(1)
            /\ (k >= 2 /\ eps # Norm(<<k - 1, k>>)) =>
                   Cardinality(EntriesEqualTo(mc_out.value, on)) = 1
            /\ (k >= 2 /\ eps = Norm(<<k - 1, k>>)) =>
                   \A c \in 1..k : mc_out.value[c] = Norm(<<1, k>>)
            /\ k = 1 => mc_out.value = <<on>>

\* C6 witness: RobustMax called with three classes on a row whose two largest
\* entries tie.
C6_Witness ==
    /\ IsRobustMaxCall
    /\ robustmax.num_classes = 3
    /\ Cardinality(ArgMaxSet(mc_out.inputs.F)) = 2
    /\ robustmax.epsilon = DefaultEpsilon
    /\ RSum(mc_out.value) = Rat(1)

\* C7: whatever changes of epsilon came before, an evaluation uses 1 - epsilon
\* and epsilon / (K - 1) of the epsilon the object holds at the call.
C7_CurrentEpsilonUsed ==
    LET eps == robustmax.epsilon
        on == RSub(Rat(1), eps)
        off == RDiv(eps, Rat(robustmax.num_classes - 1))
    IN  /\ IsRobustMaxCall =>
            \A c \in 1..Len(mc_out.value) :
                mc_out.value[c] = IF c = mc_out.inputs.argmax + 1 THEN on ELSE off
        /\ (mc_out.op = "logp" /\ mc_out.status = "value") =>
            mc_out.value.arg =
                IF mc_out.inputs.argmax = mc_out.inputs.Y THEN on ELSE off
        /\ (mc_out.op = "variational_expectations" /\ mc_out.status = "value") =>
            /\ mc_out.value.log_hit = on
            /\ mc_out.value.log_miss = off
        /\ (mc_out.op = "predict_density" /\ mc_out.status = "value") =>
            mc_out.value.arg =
                RAdd(RMul(mc_out.inputs.p, on),
                     RMul(RSub(Rat(1), mc_out.inputs.p), off))

\* C7 witness: epsilon was changed after construction and logp then returned
\* the log of epsilon / (K - 1) for a label that is not the argmax.
C7_Witness ==
    /\ mc_out.op = "logp"
    /\ mc_out.status = "value"
    /\ robustmax.epsilon # ctor_epsilon
    /\ robustmax.num_classes = 3
    /\ mc_out.inputs.argmax # mc_out.inputs.Y

(***************************************************************************)
(* Every likelihood of the module in one specification: the run starts    *)
(* with one of the three families constructed and operates on it.          *)
(***************************************************************************)
AllInit == SwInit \/ McInit \/ ScInit

AllNext == SwNext \/ McNext \/ ScNext

SpecAll == AllInit /\ [][AllNext]_vars

(***************************************************************************)
(* Properties of the scalar likelihoods.                                   *)
(***************************************************************************)
ExpDefaultKinds == {"Poisson", "Exponential", "Gamma"}

\* C4: variational_expectations of Poisson, Exponential and Gamma takes the
\* closed form exactly when the inverse link is tf.exp, and
\* predict_mean_and_var of Bernoulli exactly when it is inv_probit; with any
\* other inverse link the outcome is that of the base Likelihood's quadrature
\* implementation on the same inputs.
C4_ClosedFormIffDefaultLink ==
    /\ (sc_out.op = "variational_expectations" /\ likelihood.kind \in ExpDefaultKinds) =>
          /\ sc_out.result.path = "closed_form" <=> likelihood.invlink = "tf.exp"
          /\ likelihood.invlink = DefaultLink(likelihood.kind)
                <=> likelihood.invlink = "tf.exp"
          /\ likelihood.invlink # "tf.exp" =>
                sc_out.result =
                    Likelihood_variational_expectations(
                        likelihood, sc_out.inputs.Fmu, sc_out.inputs.Fvar,
                        sc_out.inputs.Y)
    /\ (sc_out.op = "predict_mean_and_var" /\ likelihood.kind = "Bernoulli") =>
          /\ sc_out.result.path = "closed_form" <=> likelihood.invlink = "inv_probit"
          /\ likelihood.invlink = DefaultLink(likelihood.kind)
                <=> likelihood.invlink = "inv_probit"
          /\ likelihood.invlink # "inv_probit" =>
                sc_out.result =
                    Likelihood_predict_mean_and_var(
                        likelihood, sc_out.inputs.Fmu, sc_out.inputs.Fvar)

\* A Poisson whose link computes exp but is not tf.exp has fallen back to
\* quadrature.
C4_Witness ==
    /\ sc_out.op = "variational_expectations"
    /\ likelihood.kind = "Poisson"
    /\ likelihood.invlink = "custom_exp"
    /\ sc_out.result.path = "generic_quadrature"

\* C9: for a Gaussian with the current variance, predict_mean_and_var returns
\* (Fmu, Fvar + variance) and predict_density returns the Gaussian log-density
\* of Y with mean Fmu and variance Fvar + variance.
C9_GaussianClosedForms ==
    likelihood.kind = "Gaussian" =>
        /\ sc_out.op = "predict_mean_and_var" =>
              /\ sc_out.result.status = "value"
              /\ sc_out.result.value =
                    <<Rat(sc_out.inputs.Fmu),
                      RAdd(Rat(sc_out.inputs.Fvar), likelihood.param)>>
        /\ sc_out.op = "predict_density" =>
              /\ sc_out.result.status = "value"
              /\ sc_out.result.value =
                    LogDensity("gaussian", Rat(sc_out.inputs.Y),
                               <<Rat(sc_out.inputs.Fmu),
                                 RAdd(Rat(sc_out.inputs.Fvar), likelihood.param)>>)

\* A Gaussian with variance 1/2 has predicted from a marginal of variance 1.
C9_Witness ==
    /\ likelihood.kind = "Gaussian"
    /\ likelihood.param = <<1, 2>>
    /\ sc_out.op = "predict_mean_and_var"
    /\ sc_out.inputs.Fvar = 1
    /\ sc_out.result.value[2] = <<3, 2>>

\* The latent value f is one the inverse link maps into the domain of the
\* mean: a probability for Bernoulli and Beta.
InDomain(l, f) ==
    l.kind \in {"Bernoulli", "Beta"} =>
        RGe0(invlink(l, f)) /\ RGe0(RSub(Rat(1), invlink(l, f)))

\* The latent values an evaluation of the scalar likelihood looked at.
LatentsUsed ==
    IF sc_out.op = "conditional_variance" THEN <<sc_out.inputs.F>>
    ELSE IF sc_out.result.path = "generic_quadrature"
         THEN GaussHermiteNodes(sc_out.inputs.Fmu, sc_out.inputs.Fvar)
         ELSE <<>>

AllInDomain ==
    \A i \in 1..Len(LatentsUsed) : InDomain(likelihood, LatentsUsed[i])

VarianceOps == {"conditional_variance", "predict_mean_and_var"}

\* The variance an evaluation of the scalar likelihood returned.
ReturnedVariance ==
    IF sc_out.op = "conditional_variance" THEN sc_out.result.value
    ELSE sc_out.result.value[2]

EvaluationOps ==
    {"logp", "conditional_mean", "conditional_variance", "predict_mean_and_var",
     "predict_density", "variational_expectations"}

\* C8: a step that evaluates logp, conditional_mean, conditional_variance,
\* predict_mean_and_var, predict_density or variational_expectations of any
\* likelihood leaves the parameters, the inverse link, the resolution, the
\* likelihood_list and num_likelihoods as they were, and leaves the caller's
\* Fmu, Fvar and Y (index column included) as they were.
C8_EvaluationsMutateNothing ==
    [][(func_name' \in EvaluationOps \/ mc_out'.op \in EvaluationOps
          \/ sc_out'.op \in EvaluationOps)
        => UNCHANGED <<likelihood_list, num_likelihoods, sw_points, Fmu, Fvar, Y,
                       robustmax, multiclass, likelihood>>]_vars

\* A switched logp has dispatched rows of more than one child and Y still has
\* its index column.
C8_Witness ==
    /\ func_name = "logp"
    /\ Len(Y) >= 2
    /\ \A i \in 1..Len(Y) : Len(Y[i]) = 2
    /\ \E i, j \in 1..Len(Y) : Y[i][2] # Y[j][2]
    /\ Len(results) = Len(Y)

(***************************************************************************)
(* StudentT with degrees of freedom outside df > 2.                        *)
(***************************************************************************)
\* C11: StudentT is constructed with any df, and conditional_variance with
\* df <= 2 raises nothing and returns scale^2 * df / (df - 2): a negative
\* number for df < 2 and +inf for df = 2.
C11_Original ==
    (sc_out.op = "conditional_variance" /\ likelihood.kind = "StudentT"
        /\ likelihood.df <= 2) =>
        /\ sc_out.result.status = "value"
        /\ sc_out.result.value =
              RMul(RSquare(likelihood.param),
                   Norm(<<likelihood.df, likelihood.df - 2>>))
        /\ likelihood.df < 2 => sc_out.result.value[1] < 0
        /\ likelihood.df = 2 => sc_out.result.value = <<1, 0>>

\* conditional_variance of a StudentT whose df is the Python number 2 has
\* raised.
C11_Witness ==
    /\ sc_out.op = "conditional_variance"
    /\ likelihood.kind = "StudentT"
    /\ likelihood.df = 2
    /\ ~likelihood.df_numpy
    /\ sc_out.result.status = "ZeroDivisionError"

(***************************************************************************)
(* Properties of the Monte Carlo family.                                   *)
(***************************************************************************)
\* C12: SoftMax.logp returns a value exactly when Y has one label column and
\* F has num_classes columns; with any other shapes the call fails and no
\* log-probability is in its outcome.
C12_SoftMaxLogpAsserts ==
    (mcl.kind = "SoftMax" /\ mcl_out.op = "logp") =>
        /\ mcl_out.result.status = "value"
              <=> (mcl_out.inputs.Ycols = 1
                     /\ mcl_out.inputs.Fcols = mcl.num_classes)
        /\ mcl_out.result.status # "value" =>
              /\ mcl_out.result.status \in {"InvalidArgumentError", "ValueError"}
              /\ "value" \notin DOMAIN mcl_out.result

\* logp was given one label column and an F whose width is not num_classes,
\* and failed.
C12_Witness ==
    /\ mcl.kind = "SoftMax"
    /\ mcl_out.op = "logp"
    /\ mcl_out.inputs.Ycols = 1
    /\ mcl_out.inputs.Fcols # mcl.num_classes
    /\ mcl_out.result.status = "InvalidArgumentError"

(***************************************************************************)
(* The resolution settings.  A quadrature likelihood and a Monte Carlo     *)
(* likelihood live side by side; each has its setting overridden by        *)
(* assignment and its generic operations called.                           *)
(***************************************************************************)
\* The objects the constructors make from their default arguments.
DefaultObjects ==
    {o \in Objects :
        /\ o.param \in {Rat(0), Rat(1)}
        /\ o.invlink = DefaultLink(o.kind)
        /\ o.kind = "StudentT" => o.df = 3}

DefaultMonteCarloObjects ==
    {o \in MonteCarloObjects : o.kind = "Gaussian" => o.param = Rat(1)}

ResInit ==
    /\ SwAbsent
    /\ McAbsent
    /\ likelihood \in DefaultObjects
    /\ sc_out = [op |-> "__init__"]
    /\ mcl \in DefaultMonteCarloObjects
    /\ mcl_out = [op |-> "__init__"]

GaussHermitePointChoices == {DefaultGaussHermitePoints, 10}

\* num_gauss_hermite_points is a plain attribute (line 75): overridden by
\* assignment.
SetGaussHermitePoints ==
    /\ sc_out.op # "absent"
    /\ \E n \in GaussHermitePointChoices :
        likelihood' = [likelihood EXCEPT !.num_gauss_hermite_points = n]
    /\ sc_out' = [op |-> "assign"]
    /\ UNCHANGED <<swVars, mcVars, mlVars>>

ResNext ==
    \/ SetGaussHermitePoints
    \/ Eval_predict_density
    \/ SetMonteCarloPoints
    \/ MC_predict_mean_and_var

SpecResolution == ResInit /\ [][ResNext]_vars

ResolutionHeld ==
    /\ sc_out.op = "__init__" => likelihood.num_gauss_hermite_points = 20
    /\ mcl_out.op = "__init__" => mcl.num_monte_carlo_points = 100
    /\ "num_gauss_hermite_points" \notin DOMAIN mcl
    /\ "num_monte_carlo_points" \notin DOMAIN likelihood
    /\ (sc_out.op = "predict_density"
          /\ sc_out.result.path = "generic_quadrature") =>
          sc_out.result.value.n = likelihood.num_gauss_hermite_points
    /\ mcl_out.op = "predict_mean_and_var" =>
          mcl_out.result.S = mcl.num_monte_carlo_points

\* C13: right after construction a quadrature likelihood has 20 Gauss-Hermite
\* points and a Monte Carlo likelihood has 100 samples; a Monte Carlo
\* likelihood never has a Gauss-Hermite setting; a generic operation runs with
\* the value its instance holds at the call; and a step that changes one
\* instance leaves the other as it was.  Stated of every step: the settings
\* are as described before and after it.
C13_Resolution ==
    [][/\ ResolutionHeld
       /\ ResolutionHeld'
       /\ likelihood' # likelihood => mcl' = mcl
       /\ mcl' # mcl => likelihood' = likelihood]_vars

\* Both settings were overridden and each family has evaluated with its own.
C13_Witness ==
    /\ likelihood.num_gauss_hermite_points = 10
    /\ sc_out.op = "predict_density"
    /\ sc_out.result.path = "generic_quadrature"
    /\ sc_out.result.value.n = 10
    /\ mcl.num_monte_carlo_points = 100
    /\ mcl_out.op = "predict_mean_and_var"
    /\ mcl_out.result.S = 100

(***************************************************************************)
(* Properties of Ordinal.                                                  *)
(***************************************************************************)
LogGuard == <<1, 1000000>>

\* The scaled edge above label y (+inf above the last edge) and below it
\* (-inf below the first), for the edges and sigma of l.
EdgeAbove(l, y) ==
    IF y = Len(l.bin_edges) THEN <<1, 0>>
    ELSE RDiv(Rat(l.bin_edges[y + 1]), l.param)

EdgeBelow(l, y) ==
    IF y = 0 THEN <<-1, 0>> ELSE RDiv(Rat(l.bin_edges[y]), l.param)

\* The probit-difference mass of label y at the latent value f.
CategoryMass(l, f, y) ==
    LET fs == RDiv(Rat(f), l.param)
    IN  RSub(inv_probit(RSub(EdgeAbove(l, y), fs)),
             inv_probit(RSub(EdgeBelow(l, y), fs)))

C15_ProbabilitiesTelescope ==
    (likelihood.kind = "Ordinal" /\ sc_out.op = "_make_phi") =>
        LET phi == sc_out.result.value
            n == Len(likelihood.bin_edges)
        IN  /\ Len(phi) = n + 1
            /\ RSum(phi) = Norm(<<998, 1000>>)
            /\ RSum([k \in 1..Len(phi) |-> RAdd(phi[k], LogGuard)])
                  = RAdd(Norm(<<998, 1000>>), RMul(Rat(n + 1), LogGuard))
            /\ \A k \in 1..Len(phi) :
                  phi[k] = CategoryMass(likelihood, sc_out.inputs.F, k - 1)

\* The two probabilities of a single-edge Ordinal with sigma = 1/2 at F = 1.
C15_Witness ==
    /\ likelihood.kind = "Ordinal"
    /\ likelihood.bin_edges = <<0>>
    /\ likelihood.param = <<1, 2>>
    /\ sc_out.op = "_make_phi"
    /\ sc_out.inputs.F = 1
    /\ Len(sc_out.result.value) = 2

(***************************************************************************)
(* GaussianMC.                                                             *)
(***************************************************************************)
GenericOps == {"predict_mean_and_var", "predict_density", "variational_expectations"}

\* C16: a GaussianMC is constructed with the variance parameter, 100 Monte
\* Carlo points and no Gauss-Hermite setting, and each of its
\* predict_mean_and_var, predict_density and variational_expectations is the
\* Monte Carlo engine run with the instance's sample count and the epsilon
\* given, on Gaussian's conditional_mean and conditional_variance (mean F,
\* variance the parameter) or Gaussian's logp at the samples; none is
\* Gaussian's closed form.
C16_GaussianMCUsesEngine ==
    (mcl.kind = "Gaussian" /\ mcl.class = "GaussianMC") =>
        /\ mcl_out.op = "__init__" =>
              /\ mcl.param \in PositiveParams
              /\ mcl.num_monte_carlo_points = 100
        /\ "num_gauss_hermite_points" \notin DOMAIN mcl
        /\ mcl_out.op \in GenericOps =>
              LET i == mcl_out.inputs
                  r == mcl_out.result
                  X == MCSamples(i.Fmu, i.Fvar, i.noise)
                  E_y == ndiag_mc([k \in 1..Len(X) |-> Rat(X[k])])
                  E_y2 == ndiag_mc([k \in 1..Len(X) |->
                                      RAdd(mcl.param, RSquare(Rat(X[k])))])
              IN  /\ r.path = "monte_carlo"
                  /\ r.status = "value"
                  /\ r.S = mcl.num_monte_carlo_points
                  /\ i.epsilon # None => i.noise = i.epsilon
                  /\ mcl_out.op = "predict_mean_and_var" =>
                        r.value = <<E_y, RSub(E_y2, RSquare(E_y))>>
                  /\ mcl_out.op # "predict_mean_and_var" =>
                        /\ r.value.engine = "ndiag_mc"
                        /\ r.value.logspace = (mcl_out.op = "predict_density")
                        /\ Len(r.value.terms) = Len(X)
                        /\ \A k \in 1..Len(X) :
                              r.value.terms[k] =
                                  LogDensity("gaussian", Rat(i.Y),
                                             <<Rat(X[k]), mcl.param>>)

\* A GaussianMC has predicted mean and variance from a marginal of variance 1
\* with noise the engine drew: the sample mean 0 and variance 1 + 1/2 of
\* the noise -1, 1 and the parameter 1/2.
C16_Witness ==
    /\ mcl.kind = "Gaussian"
    /\ mcl.param = <<1, 2>>
    /\ mcl_out.op = "predict_mean_and_var"
    /\ mcl_out.inputs.Fvar = 1
    /\ mcl_out.inputs.epsilon = None
    /\ mcl_out.inputs.noise = <<-1, 1>>
    /\ mcl_out.result.path = "monte_carlo"
    /\ mcl_out.result.value = << <<0, 1>>, <<3, 2>> >>

(***************************************************************************)
(* The child invocations of a partitioned SwitchedLikelihood call.         *)
(***************************************************************************)
\* The input rows whose index, the last column of Y truncated, is k.
RowsOfChild(k) == {i \in 1..Len(Y) : Y[i][2] \div 2 = k}

\* The arguments of the named operation with the index column taken off Y.
StrippedArgs(op) ==
    LET y == [i \in 1..Len(Y) |-> <<Y[i][1]>>]
    IN  IF op = "logp" THEN <<Fmu, y>> ELSE <<Fmu, Fvar, y>>

\* batch holds exactly the rows P of X, in input order.
IsRowsInOrder(batch, X, P) ==
    /\ Len(batch) = Cardinality(P)
    /\ \E pos \in [1..Len(batch) -> P] :
        /\ \A j \in 1..Len(batch) : batch[j] = X[pos[j]]
        /\ \A j1, j2 \in 1..Len(batch) : j1 < j2 => pos[j1] < pos[j2]

\* C17: in one partitioned call (logp, predict_density or
\* variational_expectations) every child is invoked exactly once, with the
\* same named operation, on exactly the rows whose index (last column of Y,
\* truncated to an integer) equals its position in likelihood_list, zero rows
\* included; the rows are taken from every argument in input order, Y is
\* passed without its index column, and every input row is given to exactly
\* one child.
C17_EveryChildOnceOnItsRows ==
    func_name \in PartitionedOps =>
        /\ Len(calls) = num_likelihoods
        /\ \A k \in 1..num_likelihoods :
            /\ calls[k].child = k
            /\ calls[k].func = func_name
            /\ Len(calls[k].args) = Len(StrippedArgs(func_name))
            /\ \A a \in 1..Len(calls[k].args) :
                IsRowsInOrder(calls[k].args[a], StrippedArgs(func_name)[a],
                              RowsOfChild(k - 1))
        /\ \A i \in 1..Len(Y) :
            Cardinality({k \in 1..num_likelihoods : i \in RowsOfChild(k - 1)}) = 1

\* A predict_density over two children where every row carries the index 1.5:
\* the first child was invoked on zero rows and the second on all three.
C17_Witness ==
    /\ func_name = "predict_density"
    /\ num_likelihoods = 2
    /\ Len(Y) = 3
    /\ \A i \in 1..3 : Y[i][2] = 3
    /\ Len(calls) = 2
    /\ calls[1].args = <<<<>>, <<>>, <<>>>>
    /\ Len(calls[2].args[3]) = 3

====
